---------------------------- MODULE Spec2Model ----------------------------
(***************************************************************************)
(* payload-oapi: the openapi() plugin of src/src/index.ts.  It derives an  *)
(* OpenAPI document (tags, paths, components) from a Payload config: a     *)
(* list of globals and a list of collections, each a tree of fields.       *)
(*                                                                         *)
(* Two specifications:                                                     *)
(*   Spec         one invocation of openapi(): the globals loop, the       *)
(*                collections loop, the optional write of the document;    *)
(*   SpecCompile  the schema compiler on its own: generateObject and       *)
(*                generateField applied to field lists drawn from a        *)
(*                bounded set of field trees.                              *)
(*                                                                         *)
(* Strings that the code takes apart or glues together (slugs, component   *)
(* names, reference pointers, path templates) are sequences of one-letter  *)
(* strings, so that capitalized(), template literals and key equality are  *)
(* computed, not assumed.  Field names and property keys are only ever     *)
(* compared, and stay TLA+ strings.                                        *)
(***************************************************************************)
EXTENDS Integers, Sequences, FiniteSets, TLC

VARIABLES
    config,      \* the Config handed to the plugin: [globals, collections]
    options,     \* the plugin's Options: [output |-> BOOLEAN]
    document,    \* the v3_1.Document under construction
    heap,        \* the path-item objects; document.paths holds indices into it
    pc,          \* position in openapi(): "run" | "done"
    gi,          \* index of the next global of the first loop
    ci,          \* index of the next collection of the second loop
    written,     \* the output sink: the sequence of documents written to it
    mode,        \* SpecCompile: the mode of the last compilation
    fields,      \* SpecCompile: the field list under compilation
    stage,       \* SpecCompile: "input" | "object" | "field" | "off"
    result,      \* SpecCompile: what generateObject / generateField returned
    fieldIndex   \* SpecCompile: which field generateField was applied to

vars == <<config, options, document, heap, pc, gi, ci, written,
          mode, fields, stage, result, fieldIndex>>

docVars == <<config, options, document, heap, pc, gi, ci, written>>
compileVars == <<mode, fields, stage, result, fieldIndex>>

----------------------------------------------------------------------------
(* Strings as sequences of letters *)

\* String.prototype.toUpperCase on one letter
toUpperCase(c) ==
    CASE c = "a" -> "A" [] c = "b" -> "B" [] c = "c" -> "C" [] c = "d" -> "D"
      [] c = "e" -> "E" [] c = "f" -> "F" [] c = "g" -> "G" [] c = "h" -> "H"
      [] c = "i" -> "I" [] c = "j" -> "J" [] c = "k" -> "K" [] c = "l" -> "L"
      [] c = "m" -> "M" [] c = "n" -> "N" [] c = "o" -> "O" [] c = "p" -> "P"
      [] c = "q" -> "Q" [] c = "r" -> "R" [] c = "s" -> "S" [] c = "t" -> "T"
      [] c = "u" -> "U" [] c = "v" -> "V" [] c = "w" -> "W" [] c = "x" -> "X"
      [] c = "y" -> "Y" [] c = "z" -> "Z" [] OTHER -> c

\* const capitalized = (value) => value[0].toUpperCase() + value.slice(1)
capitalized(value) == <<toUpperCase(Head(value))>> \o Tail(value)

\* an absent prefix / suffix (undefined, falsy)
None == <<>>

\* componentName(name, { prefix, suffix })
componentName(name, prefix, suffix) ==
    LET n1 == IF prefix # None THEN prefix \o capitalized(name) ELSE name
    IN  IF suffix # None THEN n1 \o capitalized(suffix) ELSE n1

S_new == <<"n", "e", "w">>
S_list == <<"l", "i", "s", "t">>
S_global == <<"g", "l", "o", "b", "a", "l">>
S_upload == <<"u", "p", "l", "o", "a", "d">>
S_find == <<"f", "i", "n", "d">>
S_findById == <<"f", "i", "n", "d", "B", "y", "I", "d">>
S_create == <<"c", "r", "e", "a", "t", "e">>
S_update == <<"u", "p", "d", "a", "t", "e">>
S_updateById == <<"u", "p", "d", "a", "t", "e", "B", "y", "I", "d">>
S_delete == <<"d", "e", "l", "e", "t", "e">>
S_deleteById == <<"d", "e", "l", "e", "t", "e", "B", "y", "I", "d">>
S_count == <<"c", "o", "u", "n", "t">>
S_get == <<"g", "e", "t">>
S_paginationResponse ==
    <<"p", "a", "g", "i", "n", "a", "t", "i", "o", "n",
      "R", "e", "s", "p", "o", "n", "s", "e">>
S_createResponse ==
    <<"c", "r", "e", "a", "t", "e", "R", "e", "s", "p", "o", "n", "s", "e">>
S_countResponse ==
    <<"c", "o", "u", "n", "t", "R", "e", "s", "p", "o", "n", "s", "e">>

\* the literal "#/components/"
S_components ==
    <<"#", "/", "c", "o", "m", "p", "o", "n", "e", "n", "t", "s", "/">>

\* type ComponentType = 'schemas' | 'responses' | 'requestBodies'
ComponentType == {"schemas", "responses", "requestBodies"}

\* the letters of a ComponentType
TypeLetters(type) ==
    CASE type = "schemas" -> <<"s", "c", "h", "e", "m", "a", "s">>
      [] type = "responses" -> <<"r", "e", "s", "p", "o", "n", "s", "e", "s">>
      [] type = "requestBodies" ->
            <<"r", "e", "q", "u", "e", "s", "t", "B", "o", "d", "i", "e", "s">>

\* the template `#/components/${type}/${name}`
Pointer(type, name) == S_components \o TypeLetters(type) \o <<"/">> \o name

\* composeRef(mode, type, name, options): in mode 'new' the prefix is forced
\* to 'new', whatever options.prefix was
composeRef(m, type, name, prefix, suffix) ==
    LET p == IF m = "new" THEN S_new ELSE prefix
    IN  [ref |-> Pointer(type, componentName(name, p, suffix))]

----------------------------------------------------------------------------
(* Fields (payload's Field & FieldBase) *)

\* a field without a name (row, tabs, ui): field.name is undefined
NoName == ""

\* the property key JavaScript makes of field.name: undefined becomes the
\* key "undefined"
PropKey(name) == IF name = NoName THEN "undefined" ELSE name

\* relationTo / collection: one slug, or an array of slugs
One(slug) == [isArray |-> FALSE, slugs |-> <<slug>>]
Many(slugs) == [isArray |-> TRUE, slugs |-> slugs]
NoTarget == [isArray |-> FALSE, slugs |-> <<>>]

\* a field of the given type and name, every other attribute absent
Field(type, name) ==
    [type |-> type, name |-> name,
     required |-> FALSE, hidden |-> FALSE, virtual |-> FALSE,
     hasMany |-> FALSE, relationTo |-> NoTarget, collection |-> NoTarget,
     fields |-> <<>>, blocks |-> <<>>, tabs |-> <<>>, options |-> <<>>]

\* a tab of a tabs field; interfaceName NoName when the tab declares none
Tab(interfaceName, fs) == [interfaceName |-> interfaceName, fields |-> fs]

\* a block of a blocks field
Block(fs) == [fields |-> fs]

----------------------------------------------------------------------------
(* Schema fragments *)

\* the object literal {}
EmptyObject == <<>>

Has(obj, key) == key \in DOMAIN obj

\* acc.required || []
requiredOr(obj) == IF Has(obj, "required") THEN obj.required ELSE <<>>

\* ...acc.properties (spreading undefined adds nothing)
propertiesOr(obj) == IF Has(obj, "properties") THEN obj.properties ELSE <<>>

RECURSIVE DedupeFrom(_, _)
DedupeFrom(seq, seen) ==
    IF seq = <<>> THEN <<>>
    ELSE IF Head(seq) \in seen THEN DedupeFrom(Tail(seq), seen)
    ELSE <<Head(seq)>> \o DedupeFrom(Tail(seq), seen \cup {Head(seq)})

\* [... new Set(seq)]: first occurrences, in order
Dedupe(seq) == DedupeFrom(seq, {})

Range(seq) == {seq[k] : k \in DOMAIN seq}

\* the pagination envelope written out in generateField and in the list
\* responses: allOf [ { type: object, required: [docs], properties: { docs:
\* { type: array, items } } }, ref paginationResponse ]
Envelope(items) ==
    [allOf |-> <<
        [type |-> "object",
         required |-> <<"docs">>,
         properties |-> [docs |-> [type |-> "array", items |-> items]]],
        composeRef("get", "schemas", S_paginationResponse, None, None)>>]

\* field.relationTo.map((relation) => composeRef(mode, 'schemas', relation))
RefEach(m, slugs) ==
    [k \in DOMAIN slugs |-> composeRef(m, "schemas", slugs[k], None, None)]

\* generateOptions: an option is a string or a { value, label } pair
generateOptions(opts) ==
    [k \in DOMAIN opts |-> opts[k].value]

\* joinSchema with the pagination envelope of hasMany forgotten
joinSchemaNoEnvelope(m, field) ==
    IF field.collection.isArray
    THEN [oneOf |-> RefEach(m, field.collection.slugs)]
    ELSE composeRef(m, "schemas", field.collection.slugs[1], None, None)

\* generateField, case 'join'
joinSchema(m, field) ==
    IF field.collection.isArray
    THEN IF field.hasMany
         THEN Envelope([oneOf |-> RefEach(m, field.collection.slugs)])
         ELSE [oneOf |-> RefEach(m, field.collection.slugs)]
    ELSE IF field.hasMany
         THEN Envelope(composeRef(m, "schemas", field.collection.slugs[1], None, None))
         ELSE composeRef(m, "schemas", field.collection.slugs[1], None, None)

\* relationshipNew with the test for an array of targets forgotten
relationshipNewHasManyOnly(field) ==
    IF field.hasMany
    THEN [type |-> "array", items |-> [type |-> "string"]]
    ELSE [type |-> "string"]

\* generateField, case 'relationship', mode 'new'
relationshipNew(field) ==
    IF field.relationTo.isArray \/ field.hasMany
    THEN [type |-> "array", items |-> [type |-> "string"]]
    ELSE [type |-> "string"]

\* generateField, case 'relationship', mode 'get'
relationshipGet(m, field) ==
    IF field.relationTo.isArray
    THEN IF field.hasMany
         THEN Envelope([oneOf |-> RefEach(m, field.relationTo.slugs)])
         ELSE [oneOf |-> RefEach(m, field.relationTo.slugs)]
    ELSE IF field.hasMany
         THEN Envelope(composeRef(m, "schemas", field.relationTo.slugs[1], None, None))
         ELSE composeRef(m, "schemas", field.relationTo.slugs[1], None, None)

\* generateField, case 'relationship': switch (mode)
relationshipSchema(m, field) ==
    IF m = "new" THEN relationshipNew(field) ELSE relationshipGet(m, field)

\* what a throw of generateField leaves in place of a schema
Thrown(message) == [error |-> message]

\* skipped with the test for a join forgotten
skippedKeepsJoin(m, field) ==
    \/ field.hidden
    \/ m = "new" /\ field.name \in {"id", "createdAt", "updatedAt"}
    \/ m = "new" /\ field.virtual

\* skipped with the test for hidden forgotten
skippedKeepsHidden(m, field) ==
    \/ m = "new" /\ field.name \in {"id", "createdAt", "updatedAt"}
    \/ m = "new" /\ field.virtual
    \/ field.type = "join" /\ m = "new"

\* the tests of generateObject's default branch that return acc unchanged
skipped(m, field) ==
    \/ field.hidden
    \/ m = "new" /\ field.name \in {"id", "createdAt", "updatedAt"}
    \/ m = "new" /\ field.virtual
    \/ field.type = "join" /\ m = "new"

\* insertField splicing the properties of a group or row into the parent
insertFieldSpliced(acc, field, schema) ==
    [type |-> "object",
     properties |->
        (IF field.type \in {"group", "row"}
         THEN propertiesOr(schema)
         ELSE (PropKey(field.name) :> schema)) @@ propertiesOr(acc)]
    @@ (IF Has(acc, "required") \/ field.required
        THEN [required |->
                Dedupe(IF field.required
                       THEN requiredOr(acc) \o <<field.name>>
                       ELSE acc.required)]
        ELSE <<>>)

\* the object generateObject's default branch returns: acc with the field's
\* schema under the field's name, and its name required if it is
insertField(acc, field, schema) ==
    [type |-> "object",
     properties |-> (PropKey(field.name) :> schema) @@ propertiesOr(acc)]
    @@ (IF Has(acc, "required") \/ field.required
        THEN [required |->
                Dedupe(IF field.required
                       THEN requiredOr(acc) \o <<field.name>>
                       ELSE acc.required)]
        ELSE <<>>)

\* the object generateObject's case 'tabs' returns: result.required is the
\* array [], which is truthy, so required is always set
mergeTabs(acc, resultProperties) ==
    [type |-> "object",
     required |-> Dedupe(requiredOr(acc) \o <<>>),
     properties |-> resultProperties @@ propertiesOr(acc)]

\* field.tabs.flatMap((tab) => tab.fields)
RECURSIVE flatMapTabs(_)
flatMapTabs(tabs) ==
    IF tabs = <<>> THEN <<>> ELSE Head(tabs).fields \o flatMapTabs(Tail(tabs))

\* the key under which the loop of case 'tabs' stores a tab's object
tabKey(field, tab) ==
    IF tab.interfaceName # NoName THEN tab.interfaceName ELSE PropKey(field.name)

\* the fields the loop of case 'tabs' compiles for a tab
tabFields(field, tab) ==
    IF tab.interfaceName # NoName THEN tab.fields ELSE flatMapTabs(field.tabs)

RECURSIVE generateObject(_, _), generateField(_, _), reduceFields(_, _, _),
          tabsLoop(_, _, _)

\* generateObject, case 'tabs': result.properties after the first n tabs
tabsLoop(m, field, n) ==
    IF n = 0 THEN <<>>
    ELSE LET tab == field.tabs[n]
         IN  (tabKey(field, tab) :> generateObject(m, tabFields(field, tab)))
             @@ tabsLoop(m, field, n - 1)

\* fields.reduce(..., {}) over the first n fields
reduceFields(m, fs, n) ==
    IF n = 0 THEN EmptyObject
    ELSE LET acc == reduceFields(m, fs, n - 1)
             field == fs[n]
         IN  CASE field.type = "tabs" ->
                    mergeTabs(acc, tabsLoop(m, field, Len(field.tabs)))
               [] field.type = "ui" -> acc
               [] OTHER ->
                    IF skipped(m, field) THEN acc
                    ELSE insertField(acc, field, generateField(m, field))

generateObject(m, fs) == reduceFields(m, fs, Len(fs))

generateField(m, field) ==
    CASE field.type \in {"text", "textarea", "richText", "code"} ->
            [type |-> "string"]
      [] field.type = "number" -> [type |-> "number"]
      [] field.type = "array" ->
            [type |-> "array", items |-> generateObject(m, field.fields)]
      [] field.type \in {"select", "radio"} ->
            [type |-> "string", enum |-> generateOptions(field.options)]
      [] field.type = "join" -> joinSchema(m, field)
      [] field.type = "blocks" ->
            [type |-> "array",
             items |-> [anyOf |-> [k \in DOMAIN field.blocks |->
                            generateObject(m, field.blocks[k].fields)]]]
      [] field.type = "checkbox" -> [type |-> "boolean"]
      [] field.type \in {"collapsible", "date"} ->
            [type |-> "string", format |-> "date-time"]
      [] field.type = "email" -> [type |-> "string", format |-> "email"]
      [] field.type \in {"group", "row"} -> generateObject(m, field.fields)
      [] field.type = "json" -> [type |-> "object"]
      [] field.type = "upload" ->
            [type |-> "string",
             description |-> "the key of the file uploaded to the upload collection"]
      [] field.type = "point" -> EmptyObject
      [] field.type = "relationship" -> relationshipSchema(m, field)
      [] field.type = "tabs" -> Thrown("tabs should be flattened")
      [] field.type = "ui" -> Thrown("ui should be ignored")

----------------------------------------------------------------------------
(* The schemas the entity generators make of a compiled object *)

DateTime == [type |-> "string", format |-> "date-time"]

\* generateCollectionOperators: schemas[new<Slug>]
newSchema(newObject) ==
    [type |-> "object",
     required |-> Dedupe(requiredOr(newObject)),
     properties |-> propertiesOr(newObject)]

\* generateCollectionOperators: schemas[<slug>]
collectionSchema(object) ==
    [type |-> "object",
     required |-> Dedupe(<<"id", "createdAt", "updatedAt">> \o requiredOr(object)),
     properties |->
        propertiesOr(object)
        @@ [id |-> [type |-> "number"],
            createdAt |-> DateTime,
            updatedAt |-> DateTime]]

\* generateUploadCollectionOperators: schemas[<slug>]
uploadSchema(object) ==
    [type |-> "object",
     required |->
        Dedupe(<<"id", "filename", "filesize", "focalX", "focalY", "mimeType",
                 "thumbnailURL", "url", "height", "width", "createdAt",
                 "updatedAt">> \o requiredOr(object)),
     properties |->
        propertiesOr(object)
        @@ [id |-> [type |-> "number"],
            filename |-> [type |-> "string"],
            filesize |-> [type |-> "number"],
            focalX |-> [type |-> "number"],
            focalY |-> [type |-> "number"],
            mimeType |-> [type |-> "string"],
            thumbnailURL |-> [type |-> "string"],
            url |-> [type |-> "string"],
            height |-> [type |-> "number"],
            width |-> [type |-> "number"],
            createdAt |-> DateTime,
            updatedAt |-> DateTime]]

\* generateGlobalOperators: schemas[global<Slug>]
globalSchema(object) ==
    [type |-> "object",
     required |->
        Dedupe(<<"id", "createdAt", "updatedAt", "globalType">>
               \o requiredOr(object)),
     properties |->
        propertiesOr(object)
        @@ [id |-> [type |-> "number"],
            createdAt |-> DateTime,
            updatedAt |-> DateTime,
            globalType |-> [type |-> "string"]]]

----------------------------------------------------------------------------
(* The document and its generators *)

StringArray == [type |-> "array", items |-> [type |-> "string"]]

QueryParam(name, schema) == [in |-> "query", name |-> name, schema |-> schema]

\* const baseQueryParams (descriptions and examples left out)
baseQueryParams ==
    <<QueryParam("depth", [type |-> "number"]),
      QueryParam("locale", [type |-> "string"]),
      QueryParam("fallback-locale", [type |-> "string"]),
      QueryParam("select", StringArray),
      QueryParam("populate", StringArray),
      QueryParam("joins", StringArray)>>

\* const filterQueryParams (descriptions and examples left out)
filterQueryParams ==
    <<QueryParam("limit", [type |-> "number"]),
      QueryParam("page", [type |-> "number"]),
      QueryParam("sort", StringArray),
      QueryParam("where", StringArray)>>

\* the path parameter of the '/{id}' path items
idPathParam ==
    [in |-> "path", name |-> "id", required |-> TRUE,
     schema |-> [type |-> "string"]]

\* const defaultCollectionSchemas
defaultCollectionSchemas ==
    (S_paginationResponse :>
        [type |-> "object",
         required |-> <<"hasNextPage", "hasPrevPage", "limit", "page", "nextPage",
                        "pagingCounter", "prevPage", "totalDocs", "totalPages">>,
         properties |->
            [hasNextPage |-> [type |-> "boolean", default |-> FALSE],
             hasPrevPage |-> [type |-> "boolean", default |-> FALSE],
             limit |-> [type |-> "number"],
             page |-> [type |-> "number"],
             nextPage |-> [type |-> "number"],
             pagingCounter |-> [type |-> "number"],
             prevPage |-> [type |-> "number"],
             totalDocs |-> [type |-> "number"],
             totalPages |-> [type |-> "number"]]])
    @@ (S_createResponse :>
        [type |-> "object",
         required |-> <<"message">>,
         properties |-> [message |-> [type |-> "string"]]])
    @@ (S_countResponse :>
        [type |-> "object",
         required |-> <<"totalDocs">>,
         properties |-> [totalDocs |-> [type |-> "number"]]])

\* a request body or response: { description, content: { <media>: { schema } } }
Content(media, schema) ==
    [description |-> "successful operation",
     content |-> (media :> [schema |-> schema])]

JsonContent(schema) == Content("application/json", schema)

\* a plain reference composeRef('get', type, name, { prefix, suffix })
Ref(type, name, prefix, suffix) == composeRef("get", type, name, prefix, suffix)

\* the document openapi() starts from (info and the openapi version carry
\* no reference and no key, and are left out)
initialDocument ==
    [tags |-> <<>>,
     paths |-> <<>>,
     components |->
        [requestBodies |-> <<>>,
         schemas |-> defaultCollectionSchemas,
         responses |->
            (S_count :> JsonContent(Ref("schemas", S_countResponse, None, None)))]]

\* document.tags!.push({ name: slug })
pushTag(st, slug) ==
    [st EXCEPT !.document.tags = Append(@, [name |-> slug])]

\* document.components![type]![name] = value
setComponent(st, type, name, value) ==
    [st EXCEPT !.document.components[type] = (name :> value) @@ @]

\* document.paths![key] = a new object literal
setPath(st, key, item) ==
    [document |-> [st.document EXCEPT !.paths = (key :> Len(st.heap) + 1) @@ @],
     heap |-> Append(st.heap, item)]

S_api == <<"/", "a", "p", "i", "/">>
S_apiGlobals ==
    <<"/", "a", "p", "i", "/", "g", "l", "o", "b", "a", "l", "s", "/">>
S_id == <<"/", "{", "i", "d", "}">>
S_slashCount == <<"/", "c", "o", "u", "n", "t">>

\* an operation { operationId, tags, responses: { 200 } }
Operation(operationId, slug, response) ==
    [operationId |-> operationId,
     tags |-> <<slug>>,
     responses |-> ("200" :> response)]

\* an operation with a requestBody
BodyOperation(operationId, slug, requestBody, response) ==
    [operationId |-> operationId,
     tags |-> <<slug>>,
     requestBody |-> requestBody,
     responses |-> ("200" :> response)]

\* the list response: allOf [ { docs: array of ref <slug> }, paginationResponse ]
listResponse(slug) ==
    JsonContent(Envelope(Ref("schemas", slug, None, None)))

\* the path item at /api/<slug>/{id}, the same in both collection generators
byIdPathItem(slug) ==
    [parameters |-> Append(baseQueryParams, idPathParam),
     get |-> Operation(componentName(slug, S_findById, None), slug,
                       Ref("responses", slug, None, None)),
     patch |-> BodyOperation(componentName(slug, S_updateById, None), slug,
                             Ref("requestBodies", slug, None, None),
                             Ref("responses", slug, None, None)),
     delete |-> Operation(componentName(slug, S_deleteById, None), slug,
                          Ref("responses", slug, None, None))]

\* the path item at /api/<slug>/count, the same in both collection generators
countPathItem(slug) ==
    [parameters |-> baseQueryParams,
     get |-> Operation(componentName(slug, S_count, None), slug,
                       Ref("responses", S_count, None, None))]

\* the multipart request body of an upload collection
uploadRequestBody(object) ==
    Content("multipart/form-data",
        [type |-> "object",
         properties |->
            [_payload |-> object,
             file |-> [type |-> "string", format |-> "binary"]]])

\* the path item generateUploadCollectionOperators puts at /api/<slug>
uploadPathItem(slug) ==
    [post |-> BodyOperation(componentName(slug, S_upload, None), slug,
                            Ref("requestBodies", slug, S_upload, None),
                            Ref("responses", slug, None, None)),
     get |-> [parameters |-> baseQueryParams \o filterQueryParams,
              operationId |-> componentName(slug, S_find, None),
              tags |-> <<slug>>,
              responses |-> ("200" :> Ref("responses", slug, None, S_list))]]

\* generateUploadCollectionOperators(document, collection)
generateUploadCollectionOperators(st, collection) ==
    LET object == generateObject("get", collection.fields)
        slug == collection.slug
        s1 == setComponent(st, "schemas", componentName(slug, None, None),
                           uploadSchema(object))
        s2 == setComponent(s1, "requestBodies", componentName(slug, None, None),
                           JsonContent(Ref("schemas", slug, None, None)))
        s3 == setComponent(s2, "requestBodies", componentName(slug, S_upload, None),
                           uploadRequestBody(object))
        s4 == setComponent(s3, "responses", componentName(slug, None, None),
                           JsonContent(Ref("schemas", slug, None, None)))
        s5 == setComponent(s4, "responses", componentName(slug, None, S_list),
                           listResponse(slug))
        s6 == setPath(s5, S_api \o slug, uploadPathItem(slug))
        s7 == setPath(s6, S_api \o slug \o S_id, byIdPathItem(slug))
    IN  setPath(s7, S_api \o slug \o S_slashCount, countPathItem(slug))

\* the path item generateGlobalOperators puts at /api/globals/<slug>
globalPathItem(slug) ==
    [parameters |-> filterQueryParams \o baseQueryParams,
     get |-> Operation(componentName(slug, S_get, None), slug,
                       Ref("responses", slug, S_global, None)),
     post |-> BodyOperation(componentName(slug, S_update, None), slug,
                            Ref("requestBodies", slug, S_global, None),
                            Ref("responses", slug, S_global, None))]

\* generateGlobalOperators(document, global)
generateGlobalOperators(st, global) ==
    LET object == generateObject("get", global.fields)
        slug == global.slug
        s1 == setComponent(st, "schemas", componentName(slug, S_global, None),
                           globalSchema(object))
        s2 == setComponent(s1, "requestBodies", componentName(slug, S_global, None),
                           JsonContent(Ref("schemas", slug, S_global, None)))
        s3 == setComponent(s2, "responses", componentName(slug, S_global, None),
                           JsonContent(Ref("schemas", slug, S_global, None)))
    IN  setPath(s3, S_apiGlobals \o slug, globalPathItem(slug))

\* the operation generateCollectionOperators puts under post at /api/<slug>
createOperation(slug) ==
    BodyOperation(componentName(slug, S_create, None), slug,
                  Ref("requestBodies", slug, S_new, None),
                  Ref("responses", slug, None, None))

\* the path item generateCollectionOperators puts at /api/<slug>
collectionPathItem(slug) ==
    [parameters |-> filterQueryParams \o baseQueryParams,
     get |-> Operation(componentName(slug, S_find, None), slug,
                       Ref("responses", slug, None, S_list)),
     post |-> createOperation(slug),
     patch |-> BodyOperation(componentName(slug, S_update, None), slug,
                             Ref("requestBodies", slug, None, None),
                             Ref("responses", slug, None, None)),
     delete |-> Operation(componentName(slug, S_delete, None), slug,
                          Ref("responses", slug, None, None))]

\* the create confirmation: allOf [ ref <slug>, ref createResponse ]
createConfirmation(slug) ==
    JsonContent([allOf |-> <<Ref("schemas", slug, None, None),
                             Ref("schemas", S_createResponse, None, None)>>])

\* generateCollectionOperators(document, collection)
generateCollectionOperators(st, collection) ==
    LET newObject == generateObject("new", collection.fields)
        object == generateObject("get", collection.fields)
        slug == collection.slug
        s1 == setComponent(st, "schemas", componentName(slug, S_new, None),
                           newSchema(newObject))
        s2 == setComponent(s1, "schemas", componentName(slug, None, None),
                           collectionSchema(object))
        s3 == setComponent(s2, "requestBodies", componentName(slug, S_new, None),
                           JsonContent(Ref("schemas",
                                componentName(slug, S_new, None), None, None)))
        s4 == setComponent(s3, "requestBodies", componentName(slug, None, None),
                           JsonContent(Ref("schemas", slug, None, None)))
        s5 == setComponent(s4, "responses", componentName(slug, None, None),
                           JsonContent(Ref("schemas", slug, None, None)))
        s6 == setComponent(s5, "responses", componentName(slug, S_new, None),
                           createConfirmation(slug))
        s7 == setComponent(s6, "responses", componentName(slug, None, S_list),
                           listResponse(slug))
        s8 == setPath(s7, S_api \o slug, collectionPathItem(slug))
        s9 == setPath(s8, S_api \o slug \o S_id, byIdPathItem(slug))
    IN  setPath(s9, S_api \o slug \o S_slashCount, countPathItem(slug))

\* String.prototype.toLowerCase on an HTTP method
toLowerCase(method) ==
    CASE method = "GET" -> "get" [] method = "POST" -> "post"
      [] method = "PUT" -> "put" [] method = "PATCH" -> "patch"
      [] method = "DELETE" -> "delete" [] OTHER -> method

\* the operation of a custom endpoint: the defaults, the custom fragment
\* spread over them, then the requestBody assigned for post, patch and put
customOperation(slug, endpoint) ==
    LET method == toLowerCase(endpoint.method)
        spread == endpoint.custom
                  @@ [tags |-> <<slug>>,
                      responses |-> ("200" :> Ref("responses", slug, None, None))]
    IN  IF method \in {"post", "patch", "put"}
        THEN ("requestBody" :> Ref("requestBodies", slug, None, None)) @@ spread
        ELSE spread

\* the key generateCustomEndpointOperators stores the path item under
customPathKey(base, slug, endpoint) == S_api \o slug \o endpoint.path

\* one turn of the loop of generateCustomEndpointOperators: the path item is
\* the object found at `${base}${slug}${endpoint.path}`, or a new one; the
\* operation is assigned into that object, which is then stored
customEndpoint(st, base, slug, endpoint) ==
    LET readKey == base \o slug \o endpoint.path
        found == readKey \in DOMAIN st.document.paths
        at == IF found THEN st.document.paths[readKey] ELSE Len(st.heap) + 1
        heap0 == IF found THEN st.heap ELSE Append(st.heap, EmptyObject)
        method == toLowerCase(endpoint.method)
        heap1 == [heap0 EXCEPT
                    ![at] = (method :> customOperation(slug, endpoint)) @@ @]
    IN  [document |-> [st.document EXCEPT
                        !.paths = (customPathKey(base, slug, endpoint) :> at) @@ @],
         heap |-> heap1]

RECURSIVE customEndpointsLoop(_, _, _, _)
\* the loop of generateCustomEndpointOperators over the first n endpoints
customEndpointsLoop(st, base, entity, n) ==
    IF n = 0 THEN st
    ELSE customEndpoint(customEndpointsLoop(st, base, entity, n - 1),
                        base, entity.slug, entity.endpoints[n])

\* generateCustomEndpointOperators(document, base, config); an entity
\* without endpoints has the empty list
generateCustomEndpointOperators(st, base, entity) ==
    customEndpointsLoop(st, base, entity, Len(entity.endpoints))

\* the path item stored under a key of document.paths
PathItem(key) == heap[document.paths[key]]

\* the document as JSON.stringify writes it: every path key with its item
Serialized ==
    [document EXCEPT !.paths = [key \in DOMAIN document.paths |-> PathItem(key)]]

----------------------------------------------------------------------------
(* SpecCompile: the compiler applied to bounded field trees *)

\* how deep containers (group, row, array, blocks, tabs) nest in the inputs
MaxDepth == 1

SlugA == <<"a">>
SlugNewA == <<"n", "e", "w", "A">>
SlugCount == S_count

\* the slugs of the model's entities and relation targets
Slugs == {SlugA, SlugNewA, SlugCount}

\* the relation targets: a slug, or an array of slugs
Targets == {One(SlugA), Many(<<SlugA, SlugCount>>)}

TextField(name) == Field("text", name)

\* the leaf fields of the inputs
LeafFields ==
    {[TextField("title") EXCEPT !.required = r, !.hidden = h, !.virtual = v] :
        r \in BOOLEAN, h \in BOOLEAN, v \in BOOLEAN}
    \cup {TextField(n) : n \in {"id", "createdAt", "updatedAt"}}
    \cup {[Field("join", "posts") EXCEPT !.collection = t, !.hasMany = m] :
        t \in Targets, m \in BOOLEAN}
    \cup {[Field("relationship", "author") EXCEPT
                !.relationTo = t, !.hasMany = m] :
        t \in Targets, m \in BOOLEAN}
    \cup {Field("ui", NoName),
          [TextField("id") EXCEPT !.hidden = TRUE],
          [Field("join", "posts") EXCEPT
                !.collection = One(SlugA), !.hidden = TRUE],
          [Field("collapsible", "more") EXCEPT
                !.fields = <<Field("join", "posts")>>],
          [Field("select", "status") EXCEPT
                !.options = <<[value |-> "draft"], [value |-> "live", label |-> "Live"]>>],
          [Field("relationship", "owner") EXCEPT
                !.relationTo = One(SlugA), !.hidden = TRUE, !.required = TRUE],
          [Field("number", "rank") EXCEPT !.virtual = TRUE, !.required = TRUE]}

\* the sibling put before a container or a leaf
Sibling == [TextField("slug") EXCEPT !.required = TRUE]

\* field lists without containers: one leaf, or a required text and a leaf
LeafLists ==
    {<<>>} \cup {<<f>> : f \in LeafFields}
    \cup {<<Sibling, f>> : f \in LeafFields}

\* the containers over a field list
Containers(fs) ==
    {[Field("group", "meta") EXCEPT !.fields = fs],
     [Field("group", "secret") EXCEPT !.fields = fs, !.hidden = TRUE],
     [Field("row", NoName) EXCEPT !.fields = fs],
     [Field("array", "items") EXCEPT !.fields = fs, !.required = TRUE],
     [Field("blocks", "layout") EXCEPT
        !.blocks = <<Block(fs), Block(<<TextField("caption")>>)>>],
     [Field("tabs", NoName) EXCEPT !.tabs = <<Tab(NoName, fs)>>],
     [Field("tabs", NoName) EXCEPT !.tabs = <<Tab("Seo", fs)>>],
     [Field("tabs", NoName) EXCEPT
        !.tabs = <<Tab("Seo", fs), Tab(NoName, <<TextField("body")>>)>>]}

\* the field lists of nesting depth at most d; sibling names are distinct,
\* as payload requires of a field list
RECURSIVE FieldLists(_)
FieldLists(d) ==
    IF d = 0 THEN LeafLists
    ELSE LeafLists
         \cup UNION {{<<c>>, <<Sibling, c>>} :
                c \in UNION {Containers(fs) : fs \in FieldLists(d - 1)}}

\* no invocation of openapi() is under way
DocIdle ==
    /\ config = [globals |-> <<>>, collections |-> <<>>]
    /\ options = [output |-> FALSE]
    /\ document = EmptyObject
    /\ heap = <<>>
    /\ pc = "off"
    /\ gi = 0
    /\ ci = 0
    /\ written = <<>>

InitCompile ==
    /\ DocIdle
    /\ mode \in {"new", "get"}
    /\ fields \in FieldLists(MaxDepth)
    /\ stage = "input"
    /\ result = EmptyObject
    /\ fieldIndex = 0

\* generateObject(mode, fields)
CompileObject ==
    /\ stage = "input"
    /\ stage' = "object"
    /\ result' = generateObject(mode, fields)
    /\ UNCHANGED <<mode, fields, fieldIndex>>
    /\ UNCHANGED docVars

\* generateField(mode, fields[i])
CompileField ==
    /\ stage = "input"
    /\ \E i \in DOMAIN fields :
        /\ fieldIndex' = i
        /\ result' = generateField(mode, fields[i])
    /\ stage' = "field"
    /\ UNCHANGED <<mode, fields>>
    /\ UNCHANGED docVars

NextCompile == CompileObject \/ CompileField

SpecCompile == InitCompile /\ [][NextCompile]_vars

----------------------------------------------------------------------------
(* Spec: one invocation of openapi() *)

\* how many globals and how many collections a config has at most
MaxGlobals == 1
MaxCollections == 2

\* { path, method, custom } of an entity's endpoints
Endpoint(path, method, custom) ==
    [path |-> path, method |-> method, custom |-> custom]

S_x == <<"/", "x">>

\* custom fragments: none, tags, a request body and responses of their own
NoCustom == <<>>
CustomTags == [tags |-> <<<<"x">>>>]
CustomBody ==
    [requestBody |-> [description |-> "custom body"],
     responses |-> ("200" :> [description |-> "custom response"])]

\* the field lists of the entities: a required title; an id, a hidden
\* field, a virtual one, a relationship and a join
TitleOnly == <<[TextField("title") EXCEPT !.required = TRUE]>>
Mixed ==
    <<TextField("id"),
      [TextField("secret") EXCEPT !.hidden = TRUE],
      [Field("number", "rank") EXCEPT !.virtual = TRUE, !.required = TRUE],
      [Field("relationship", "author") EXCEPT
            !.relationTo = One(SlugA), !.hasMany = TRUE],
      [Field("join", "posts") EXCEPT !.collection = One(SlugCount)]>>

\* structural nodes: a ui node, tabs with and without interfaceName, and a
\* ui node inside a group
Structural ==
    <<Field("ui", "divider"),
      [Field("tabs", NoName) EXCEPT
        !.tabs = <<Tab("Seo", TitleOnly), Tab(NoName, <<TextField("body")>>)>>],
      [Field("group", "meta") EXCEPT !.fields = <<Field("ui", "hint")>>]>>

EndpointsX ==
    <<Endpoint(S_x, "GET", NoCustom), Endpoint(S_x, "post", CustomTags)>>
EndpointsRoot ==
    <<Endpoint(<<>>, "put", CustomBody), Endpoint(S_x, "get", CustomBody)>>

\* the fields and endpoints of the globals
GlobalShapes ==
    {[fields |-> TitleOnly, endpoints |-> <<>>],
     [fields |-> Mixed, endpoints |-> <<>>],
     [fields |-> TitleOnly, endpoints |-> EndpointsX],
     [fields |-> Mixed, endpoints |-> EndpointsRoot],
     [fields |-> Structural, endpoints |-> <<>>]}

\* the fields, endpoints and upload flag of the collections
CollectionShapes ==
    {[fields |-> TitleOnly, endpoints |-> <<>>, upload |-> FALSE],
     [fields |-> Mixed, endpoints |-> <<>>, upload |-> TRUE],
     [fields |-> TitleOnly, endpoints |-> EndpointsX, upload |-> FALSE],
     [fields |-> Mixed, endpoints |-> EndpointsRoot, upload |-> FALSE],
     [fields |-> Mixed, endpoints |-> EndpointsX, upload |-> TRUE],
     [fields |-> Structural, endpoints |-> <<>>, upload |-> FALSE]}

\* the sequences of n pairwise distinct slugs
InjectiveSeqs(n) ==
    {q \in [1..n -> Slugs] : \A i, j \in 1..n : i # j => q[i] # q[j]}

\* the configs with g globals and c collections of pairwise distinct slugs
ConfigsOf(g, c) ==
    {[globals |->
        [i \in 1..g |->
            [slug |-> q[i], fields |-> gs[i].fields, endpoints |-> gs[i].endpoints]],
      collections |->
        [i \in 1..c |->
            [slug |-> q[g + i], fields |-> cs[i].fields,
             endpoints |-> cs[i].endpoints, upload |-> cs[i].upload]]] :
        q \in InjectiveSeqs(g + c), gs \in [1..g -> GlobalShapes],
        cs \in [1..c -> CollectionShapes]}

Configs ==
    UNION {ConfigsOf(g, c) : g \in 0..MaxGlobals, c \in 0..MaxCollections}

\* the compiler is not being exercised on its own
CompileIdle ==
    /\ mode = "get"
    /\ fields = <<>>
    /\ stage = "off"
    /\ result = EmptyObject
    /\ fieldIndex = 0

Init ==
    /\ config \in Configs
    /\ options \in [output : BOOLEAN]
    /\ document = initialDocument
    /\ heap = <<>>
    /\ pc = "run"
    /\ gi = 1
    /\ ci = 1
    /\ written = <<>>
    /\ CompileIdle

Store == [document |-> document, heap |-> heap]

\* whether a compilation met one of the throws of generateField: the error
\* sits somewhere in what was being built
RECURSIVE Raises(_)
Raises(sch) ==
    \/ Has(sch, "error")
    \/ Has(sch, "properties") /\ \E k \in DOMAIN sch.properties : Raises(sch.properties[k])
    \/ Has(sch, "items") /\ Raises(sch.items)
    \/ Has(sch, "anyOf") /\ \E k \in DOMAIN sch.anyOf : Raises(sch.anyOf[k])

\* whether the generator of a global throws: it compiles the fields in mode
\* 'get'
globalRaises(global) == Raises(generateObject("get", global.fields))

\* whether the generator of a collection throws: an upload collection is
\* compiled in mode 'get', any other in mode 'new' and in mode 'get'
collectionRaises(collection) ==
    \/ Raises(generateObject("get", collection.fields))
    \/ ~collection.upload /\ Raises(generateObject("new", collection.fields))

\* the write placed before the loop over the collections
loopsFinishedAfterGlobals == gi > Len(config.globals)

\* both for-loops of openapi() have run to their end
loopsFinished == gi > Len(config.globals) /\ ci > Len(config.collections)

\* one turn of the loop over config.globals; a throw of the compiler ends
\* the invocation there, the promise rejected
ProcessGlobal ==
    /\ pc = "run"
    /\ gi <= Len(config.globals)
    /\ LET global == config.globals[gi]
           tagged == pushTag(Store, global.slug)
           st == generateCustomEndpointOperators(
                    generateGlobalOperators(tagged, global),
                    S_apiGlobals, global)
       IN  IF globalRaises(global)
           THEN /\ document' = tagged.document
                /\ heap' = tagged.heap
                /\ pc' = "error"
                /\ gi' = gi
           ELSE /\ document' = st.document
                /\ heap' = st.heap
                /\ pc' = pc
                /\ gi' = gi + 1
    /\ UNCHANGED <<config, options, ci, written>>
    /\ UNCHANGED compileVars

\* one turn of the loop over config.collections
ProcessCollection ==
    /\ pc = "run"
    /\ gi > Len(config.globals)
    /\ ci <= Len(config.collections)
    /\ LET collection == config.collections[ci]
           tagged == pushTag(Store, collection.slug)
           generated == IF collection.upload
                        THEN generateUploadCollectionOperators(tagged, collection)
                        ELSE generateCollectionOperators(tagged, collection)
           st == generateCustomEndpointOperators(generated, S_api, collection)
       IN  IF collectionRaises(collection)
           THEN /\ document' = tagged.document
                /\ heap' = tagged.heap
                /\ pc' = "error"
                /\ ci' = ci
           ELSE /\ document' = st.document
                /\ heap' = st.heap
                /\ pc' = pc
                /\ ci' = ci + 1
    /\ UNCHANGED <<config, options, gi, written>>
    /\ UNCHANGED compileVars

\* after both loops: if (options?.output) fs.writeFileSync(...); return config
WriteAndReturn ==
    /\ pc = "run"
    /\ loopsFinished
    /\ written' = IF options.output THEN Append(written, Serialized) ELSE written
    /\ pc' = "done"
    /\ UNCHANGED <<config, options, document, heap, gi, ci>>
    /\ UNCHANGED compileVars

Next == ProcessGlobal \/ ProcessCollection \/ WriteAndReturn

Spec == Init /\ [][Next]_vars

----------------------------------------------------------------------------
(* What the properties below read off a field tree and off a schema *)

\* the schemas directly inside a schema
SubSchemas(sch) ==
    (IF Has(sch, "properties") THEN Range(sch.properties) ELSE {})
    \cup (IF Has(sch, "items") THEN {sch.items} ELSE {})
    \cup (IF Has(sch, "allOf") THEN Range(sch.allOf) ELSE {})
    \cup (IF Has(sch, "oneOf") THEN Range(sch.oneOf) ELSE {})
    \cup (IF Has(sch, "anyOf") THEN Range(sch.anyOf) ELSE {})

\* every property key of a schema, at any depth
RECURSIVE AllKeys(_)
AllKeys(sch) ==
    (IF Has(sch, "properties") THEN DOMAIN sch.properties ELSE {})
    \cup UNION {AllKeys(sub) : sub \in SubSchemas(sch)}

\* every entry of a required list of a schema, at any depth
RECURSIVE AllRequired(_)
AllRequired(sch) ==
    (IF Has(sch, "required") THEN Range(sch.required) ELSE {})
    \cup UNION {AllRequired(sub) : sub \in SubSchemas(sch)}

\* every reference pointer of a schema, at any depth
RECURSIVE AllRefs(_)
AllRefs(sch) ==
    (IF Has(sch, "ref") THEN {sch.ref} ELSE {})
    \cup UNION {AllRefs(sub) : sub \in SubSchemas(sch)}

\* the field lists directly inside a field: of a group, row or array, of
\* each block, of each tab
InnerLists(f) ==
    CASE f.type \in {"group", "row", "array"} -> {f.fields}
      [] f.type = "blocks" -> {f.blocks[k].fields : k \in DOMAIN f.blocks}
      [] f.type = "tabs" -> {f.tabs[k].fields : k \in DOMAIN f.tabs}
      [] OTHER -> {}

\* every field of a field list, at any nesting depth
RECURSIVE NestedFields(_)
NestedFields(fs) ==
    Range(fs) \cup UNION {UNION {NestedFields(l) : l \in InnerLists(fs[k])} :
                            k \in DOMAIN fs}

\* every field of a field list none of whose enclosing fields is hidden
RECURSIVE VisibleFields(_)
VisibleFields(fs) ==
    Range(fs)
    \cup UNION {IF fs[k].hidden THEN {}
                ELSE UNION {VisibleFields(l) : l \in InnerLists(fs[k])} :
                    k \in DOMAIN fs}

\* a field that a write must not carry: a built-in name, virtual, or a join
WriteOnlyExcluded(f) ==
    \/ f.name \in {"id", "createdAt", "updatedAt"}
    \/ f.virtual
    \/ f.type = "join"

----------------------------------------------------------------------------
(* Properties of the compiler, under SpecCompile *)

BuiltInNames ==
    {"id", "createdAt", "updatedAt", "globalType", "filename", "filesize",
     "focalX", "focalY", "mimeType", "thumbnailURL", "url", "height", "width"}

\* the entity schemas the generators make of an object compiled in mode m
EntitySchemas(m, object) ==
    IF m = "new" THEN {newSchema(object)}
    ELSE {collectionSchema(object), uploadSchema(object), globalSchema(object)}

\* the hidden fields of the input that have a name
HiddenFields == {f \in NestedFields(fields) : f.hidden /\ f.name # NoName}

IdString == [type |-> "string"]
IdArray == [type |-> "array", items |-> [type |-> "string"]]

\* the field generateField was applied to
TheField == fields[fieldIndex]

\* the top-level fields of the input that generateObject gives a property
CompiledTop(m) ==
    {f \in Range(fields) :
        /\ f.type \notin {"tabs", "ui"}
        /\ ~f.hidden
        /\ ~(m = "new" /\ WriteOnlyExcluded(f))}

\* C5 as stated: in mode 'new' a relationship compiles to { type: string }
\* whenever hasMany is not set, polymorphic or not, and to an array of
\* { type: string } exactly when hasMany is set.
C5_BareIdUnlessHasMany ==
    stage = "field" /\ mode = "new" /\ TheField.type = "relationship" =>
        result = IF TheField.hasMany THEN IdArray ELSE IdString

\* C5, amended: in mode 'new' a relationship compiles to { type: string }
\* when hasMany is not set and relationTo is a single slug, and to an array
\* of { type: string } when hasMany is set or relationTo is a sequence of
\* slugs; it never contains a reference or a pagination envelope.
C5_WriteModeRelationship ==
    /\ stage = "field" /\ mode = "new" /\ TheField.type = "relationship" =>
        /\ result = IF TheField.hasMany \/ TheField.relationTo.isArray
                    THEN IdArray ELSE IdString
        /\ AllRefs(result) = {}
    /\ stage = "object" /\ mode = "new" =>
        \A f \in CompiledTop("new") :
            f.type = "relationship" =>
                /\ Has(propertiesOr(result), f.name)
                /\ result.properties[f.name] =
                        IF f.hasMany \/ f.relationTo.isArray
                        THEN IdArray ELSE IdString

\* C5's case: a polymorphic relationship without hasMany, compiled for a
\* write
C5_Witness ==
    /\ stage = "field"
    /\ mode = "new"
    /\ TheField.type = "relationship"
    /\ TheField.relationTo.isArray
    /\ ~TheField.hasMany
    /\ result = IdArray

\* the pointer '#/components/schemas/<slug>', letter by letter
SchemaPointer(slug) ==
    <<"#", "/", "c", "o", "m", "p", "o", "n", "e", "n", "t", "s", "/",
      "s", "c", "h", "e", "m", "a", "s", "/">> \o slug

\* a reference to the get-mode schema of a target, a oneOf of them when the
\* target is polymorphic
ExpectedItem(t) ==
    IF t.isArray
    THEN [oneOf |-> [k \in DOMAIN t.slugs |-> [ref |-> SchemaPointer(t.slugs[k])]]]
    ELSE [ref |-> SchemaPointer(t.slugs[1])]

\* the target of a relationship or a join
TargetOf(f) == IF f.type = "join" THEN f.collection ELSE f.relationTo

\* the get-mode schema C6 gives a relationship or a join
ExpectedGet(f) ==
    IF f.hasMany
    THEN [allOf |-> <<
            [type |-> "object",
             required |-> <<"docs">>,
             properties |->
                [docs |-> [type |-> "array", items |-> ExpectedItem(TargetOf(f))]]],
            [ref |-> SchemaPointer(
                <<"p", "a", "g", "i", "n", "a", "t", "i", "o", "n",
                  "R", "e", "s", "p", "o", "n", "s", "e">>)]>>]
    ELSE ExpectedItem(TargetOf(f))

\* C6: in mode 'get' a relationship or join with hasMany compiles to allOf
\* of exactly two parts, an object requiring 'docs' (an array of references
\* to the target's get-mode schema, a oneOf of them when polymorphic) and a
\* reference to paginationResponse; without hasMany it compiles to the bare
\* reference (or the oneOf).
C6_ReadModeRelation ==
    /\ stage = "field" /\ mode = "get"
            /\ TheField.type \in {"relationship", "join"} =>
        result = ExpectedGet(TheField)
    /\ stage = "object" /\ mode = "get" =>
        \A f \in CompiledTop("get") :
            f.type \in {"relationship", "join"} =>
                /\ Has(propertiesOr(result), f.name)
                /\ result.properties[f.name] = ExpectedGet(f)

\* C6's case: a polymorphic join with hasMany, compiled for a read
C6_Witness ==
    /\ stage = "field"
    /\ mode = "get"
    /\ TheField.type = "join"
    /\ TheField.hasMany
    /\ TheField.collection.isArray
    /\ Has(result, "allOf")
    /\ Len(result.allOf) = 2

\* the compiled object of one tab's fields
TabObject(m, tab) == generateObject(m, tab.fields)

\* C7 as stated: of a tabs field, each tab without interfaceName adds its
\* fields' properties and required names to the parent object itself; each
\* tab with interfaceName adds one property, keyed by that name, holding the
\* compiled object of that tab's fields only; the tabs field adds no
\* property under any other key.
C7_TabsFlattened ==
    stage = "object" =>
        \A k \in DOMAIN fields :
            fields[k].type = "tabs" =>
                LET f == fields[k]
                    props == propertiesOr(result)
                    named == {j \in DOMAIN f.tabs : f.tabs[j].interfaceName # NoName}
                    plain == DOMAIN f.tabs \ named
                    others == {fields[i] : i \in DOMAIN fields \ {k}}
                IN  /\ \A j \in plain :
                            LET sub == TabObject(mode, f.tabs[j])
                            IN  /\ \A key \in DOMAIN propertiesOr(sub) :
                                        /\ key \in DOMAIN props
                                        /\ props[key] = sub.properties[key]
                                /\ Range(requiredOr(sub)) \subseteq
                                        Range(requiredOr(result))
                    /\ \A j \in named :
                            /\ f.tabs[j].interfaceName \in DOMAIN props
                            /\ props[f.tabs[j].interfaceName] =
                                    TabObject(mode, f.tabs[j])
                    /\ DOMAIN props \subseteq
                            {PropKey(g.name) : g \in others}
                            \cup {f.tabs[j].interfaceName : j \in named}
                            \cup UNION {DOMAIN propertiesOr(TabObject(mode, f.tabs[j])) :
                                            j \in plain}

----------------------------------------------------------------------------
(* Properties of the document, under Spec *)

\* the reference pointers of a request body, a response or a reference
RefsOfBody(body) ==
    IF Has(body, "ref") THEN {body.ref}
    ELSE IF Has(body, "content")
         THEN UNION {AllRefs(body.content[media].schema) :
                        media \in DOMAIN body.content}
         ELSE {}

\* the reference pointers of an operation
RefsOfOperation(op) ==
    (IF Has(op, "requestBody") THEN RefsOfBody(op.requestBody) ELSE {})
    \cup (IF Has(op, "responses")
          THEN UNION {RefsOfBody(op.responses[code]) : code \in DOMAIN op.responses}
          ELSE {})

\* the reference pointers of a path item
RefsOfPathItem(item) ==
    UNION {RefsOfOperation(item[method]) : method \in DOMAIN item \ {"parameters"}}

\* every reference pointer of the document
DocumentRefs ==
    UNION {RefsOfPathItem(PathItem(key)) : key \in DOMAIN document.paths}
    \cup UNION {RefsOfBody(document.components.requestBodies[name]) :
                    name \in DOMAIN document.components.requestBodies}
    \cup UNION {RefsOfBody(document.components.responses[name]) :
                    name \in DOMAIN document.components.responses}
    \cup UNION {AllRefs(document.components.schemas[name]) :
                    name \in DOMAIN document.components.schemas}

\* a pointer '#/components/<type>/<name>' whose <name> is a key of
\* document.components.<type>
Resolves(pointer) ==
    \E type \in ComponentType :
        \E name \in DOMAIN document.components[type] :
            pointer = <<"#", "/", "c", "o", "m", "p", "o", "n", "e", "n", "t", "s", "/">>
                      \o TypeLetters(type) \o <<"/">> \o name

\* the entities of the config
Entities == Range(config.globals) \cup Range(config.collections)

CollectionSlugs == {c.slug : c \in Range(config.collections)}

\* every relationTo / collection target names a declared collection
TargetsDeclared ==
    \A e \in Entities :
        \A f \in NestedFields(e.fields) :
            f.type \in {"relationship", "join"} =>
                Range(TargetOf(f).slugs) \subseteq CollectionSlugs

\* C1: after openapi() has processed globals and collections of pairwise
\* distinct slugs whose relation targets are declared collections, custom
\* endpoints included, every '#/components/<type>/<name>' pointer of the
\* document has <name> as a key of document.components.<type>.
C1_ReferenceIntegrity ==
    pc = "done" /\ TargetsDeclared =>
        \A pointer \in DocumentRefs : Resolves(pointer)

\* C2: for every endpoint { path, method } of a global or a collection the
\* finished document has, at '<base><slug><path>' (base '/api/globals/' for
\* a global, '/api/' for a collection), an operation under the lower-cased
\* method; all endpoints of the entity together, those sharing a path too.
C2_CustomEndpointPaths ==
    pc = "done" =>
        /\ \A g \in Range(config.globals) :
            \A k \in DOMAIN g.endpoints :
                LET key == <<"/", "a", "p", "i", "/", "g", "l", "o", "b", "a", "l", "s", "/">>
                           \o g.slug \o g.endpoints[k].path
                IN  /\ key \in DOMAIN document.paths
                    /\ Has(PathItem(key), toLowerCase(g.endpoints[k].method))
        /\ \A c \in Range(config.collections) :
            \A k \in DOMAIN c.endpoints :
                LET key == <<"/", "a", "p", "i", "/">> \o c.slug \o c.endpoints[k].path
                IN  /\ key \in DOMAIN document.paths
                    /\ Has(PathItem(key), toLowerCase(c.endpoints[k].method))

\* 'new<Slug>', letter by letter
NewName(slug) == <<"n", "e", "w">> \o capitalized(slug)

\* C9: for every non-upload collection the POST operation at '/api/<slug>'
\* (operationId create<Slug>) has requestBody
\* '#/components/requestBodies/new<Slug>', and its 200 response is the
\* create confirmation '#/components/responses/new<Slug>' (allOf of the
\* <slug> schema and createResponse), not the plain single-document response.
C9_CreateConfirmation ==
    pc = "done" =>
        \A c \in Range(config.collections) :
            ~c.upload =>
                LET key == <<"/", "a", "p", "i", "/">> \o c.slug
                    responses == document.components.responses
                IN  /\ key \in DOMAIN document.paths
                    /\ Has(PathItem(key), "post")
                    /\ PathItem(key).post.operationId =
                            <<"c", "r", "e", "a", "t", "e">> \o capitalized(c.slug)
                    /\ PathItem(key).post.requestBody =
                            [ref |-> S_components \o TypeLetters("requestBodies")
                                     \o <<"/">> \o NewName(c.slug)]
                    /\ PathItem(key).post.responses["200"] =
                            [ref |-> S_components \o TypeLetters("responses")
                                     \o <<"/">> \o NewName(c.slug)]
                    /\ NewName(c.slug) \in DOMAIN responses
                    /\ responses[NewName(c.slug)].content["application/json"].schema =
                            [allOf |-> <<[ref |-> SchemaPointer(c.slug)],
                                         [ref |-> SchemaPointer(S_createResponse)]>>]

\* 'upload<Slug>', letter by letter
UploadName(slug) == <<"u", "p", "l", "o", "a", "d">> \o capitalized(slug)

\* C10: for every upload collection the multipart/form-data request body
\* upload<Slug> carries, under its wrapper key, the write-mode (mode 'new')
\* compilation of the collection's fields, with no id / createdAt /
\* updatedAt, virtual or join property, next to a 'file' property of type
\* string and format binary.
C10_UploadBodyWriteMode ==
    pc = "done" =>
        \A c \in Range(config.collections) :
            c.upload =>
                LET bodies == document.components.requestBodies
                IN  /\ UploadName(c.slug) \in DOMAIN bodies
                    /\ "multipart/form-data" \in DOMAIN bodies[UploadName(c.slug)].content
                    /\ LET props == bodies[UploadName(c.slug)]
                                        .content["multipart/form-data"].schema.properties
                       IN  /\ "file" \in DOMAIN props
                           /\ props["file"] = [type |-> "string", format |-> "binary"]
                           /\ \E wrapper \in DOMAIN props \ {"file"} :
                                /\ DOMAIN props = {"file", wrapper}
                                /\ props[wrapper] = generateObject("new", c.fields)
                                /\ \A f \in NestedFields(c.fields) :
                                        WriteOnlyExcluded(f) =>
                                            f.name \notin AllKeys(props[wrapper])

----------------------------------------------------------------------------
(* Custom endpoints: the override fragment *)

\* the endpoints of an entity, each with the entity's slug
EndpointsOf(entity) ==
    {[slug |-> entity.slug, endpoint |-> entity.endpoints[k]] :
        k \in DOMAIN entity.endpoints}

\* the operation the document holds for an endpoint, where the generator
\* has stored it
EmittedAt(e) == S_api \o e.slug \o e.endpoint.path

EmittedOperation(e) == PathItem(EmittedAt(e))[toLowerCase(e.endpoint.method)]

IsEmitted(e) ==
    /\ EmittedAt(e) \in DOMAIN document.paths
    /\ Has(PathItem(EmittedAt(e)), toLowerCase(e.endpoint.method))

\* '#/components/<type>/<slug>', letter by letter
PlainPointer(type, slug) ==
    <<"#", "/", "c", "o", "m", "p", "o", "n", "e", "n", "t", "s", "/">>
    \o (IF type = "responses"
        THEN <<"r", "e", "s", "p", "o", "n", "s", "e", "s">>
        ELSE <<"r", "e", "q", "u", "e", "s", "t", "B", "o", "d", "i", "e", "s">>)
    \o <<"/">> \o slug

\* the keys of the fragment keep the fragment's value; the other default
\* keys keep the default
OverrideWins(e, keys) ==
    LET op == EmittedOperation(e)
        custom == e.endpoint.custom
        method == toLowerCase(e.endpoint.method)
    IN  /\ \A k \in DOMAIN custom \cap keys : Has(op, k) /\ op[k] = custom[k]
        /\ ~Has(custom, "tags") => op.tags = <<e.slug>>
        /\ ~Has(custom, "responses") =>
                op.responses = ("200" :> [ref |-> PlainPointer("responses", e.slug)])
        /\ (method \in {"post", "patch", "put"} /\ ~Has(custom, "requestBody")) =>
                /\ Has(op, "requestBody")
                /\ op.requestBody = [ref |-> PlainPointer("requestBodies", e.slug)]

\* C11: in the finished document the operation of every custom endpoint has,
\* for each key of the endpoint's custom fragment (tags, responses,
\* requestBody), the fragment's value; the default tags, responses and, for
\* post, patch and put, the default requestBody reference stand only where
\* the fragment has no such key.
C11_OverrideWins ==
    pc = "done" =>
        \A entity \in Entities : \A e \in EndpointsOf(entity) :
            IsEmitted(e) => OverrideWins(e, {"tags", "responses", "requestBody"})

\* the same for tags and responses only
C11_TagsResponsesWin ==
    pc = "done" =>
        \A entity \in Entities : \A e \in EndpointsOf(entity) :
            IsEmitted(e) => OverrideWins(e, {"tags", "responses"})

----------------------------------------------------------------------------
(* The write of the document *)

\* the tags of a document in which every global and then every collection
\* has been processed, in the order of the config
AllTags ==
    [i \in 1..(Len(config.globals) + Len(config.collections)) |->
        [name |-> IF i <= Len(config.globals)
                  THEN config.globals[i].slug
                  ELSE config.collections[i - Len(config.globals)].slug]]

\* a tabs or a ui node, at any depth of a field list
StructuralNodes(fs) == {f \in NestedFields(fs) : f.type \in {"tabs", "ui"}}

\* C12: an invocation with an output path writes the sink at most once, and
\* only with the document in which every global and then every collection
\* has been processed, the invocation ending with that write; an invocation
\* that ends with an error has written nothing, and nothing is written
\* after the error.
C12_WriteAllOrNothing ==
    /\ [][written' # written =>
            /\ options.output
            /\ pc = "run" /\ pc' = "done"
            /\ written = <<>>
            /\ document.tags = AllTags
            /\ written' = <<Serialized>>]_vars
    /\ [](pc \in {"run", "done", "error"})
    /\ [](pc = "error" => written = <<>>)
    /\ [](pc = "done" =>
            /\ document.tags = AllTags
            /\ written = IF options.output THEN <<Serialized>> ELSE <<>>)

\* a global and a collection, one of them with tabs and ui nodes, have been
\* processed and the document has been written
C12_Witness ==
    /\ pc = "done"
    /\ options.output
    /\ Len(written) = 1
    /\ written[1].tags = AllTags
    /\ Len(config.globals) >= 1
    /\ Len(config.collections) >= 1
    /\ \E entity \in Entities : StructuralNodes(entity.fields) # {}

\* the throws of generateField are not met by any invocation
C12_NoError == pc # "error"

----------------------------------------------------------------------------
(* The component keys *)

RECURSIVE SumOver(_, _)
\* the sum of n[i] over the indices of a sequence
SumOver(q, i) == IF i = 0 THEN 0 ELSE q[i] + SumOver(q, i - 1)

\* how many assignments into components[type] the generators of the
\* entities make: a global one of each type; a collection two schemas, two
\* request bodies and three responses; an upload collection one schema, two
\* request bodies and two responses
WritesInto(type) ==
    LET perCollection(c) ==
            CASE type = "schemas" -> IF c.upload THEN 1 ELSE 2
              [] type = "requestBodies" -> 2
              [] type = "responses" -> IF c.upload THEN 2 ELSE 3
        collections == [k \in DOMAIN config.collections |->
                            perCollection(config.collections[k])]
    IN  Len(config.globals) + SumOver(collections, Len(collections))

\* the seeded keys are in the document with the values they were seeded with
SeedsUnchanged ==
    /\ \A key \in DOMAIN initialDocument.components.schemas :
        /\ key \in DOMAIN document.components.schemas
        /\ document.components.schemas[key] = initialDocument.components.schemas[key]
    /\ \A key \in DOMAIN initialDocument.components.responses :
        /\ key \in DOMAIN document.components.responses
        /\ document.components.responses[key]
                = initialDocument.components.responses[key]

\* every assignment into components[type] has made a key of its own
KeysDistinct(type) ==
    Cardinality(DOMAIN document.components[type])
        = Cardinality(DOMAIN initialDocument.components[type]) + WritesInto(type)

\* C13: the slugs of the config being pairwise distinct, in the finished
\* document every assignment into components.schemas, requestBodies and
\* responses has made a key of its own (none replaced a key that was there),
\* and the seeded paginationResponse, createResponse, countResponse and the
\* response 'count' have the values they were seeded with.
C13_ComponentKeysDistinct ==
    pc = "done" =>
        /\ \A type \in {"schemas", "requestBodies", "responses"} : KeysDistinct(type)
        /\ SeedsUnchanged

\* the slugs that are a seeded key or a key another entity derives
ClashingSlugs ==
    {S_count, S_paginationResponse, S_createResponse, S_countResponse}
    \cup UNION {{NewName(e.slug), UploadName(e.slug),
                 componentName(e.slug, S_global, None),
                 componentName(e.slug, None, S_list)} : e \in Entities}

\* the same with no slug that is a seeded or a derived key
C13_DistinctWithoutClash ==
    (pc = "done" /\ \A e \in Entities : e.slug \notin ClashingSlugs) =>
        /\ \A type \in {"schemas", "requestBodies", "responses"} : KeysDistinct(type)
        /\ SeedsUnchanged

============================================================================
